---- MODULE Spec2Model ----
(***************************************************************************)
(* Model of src/earth_meteorite_landings.py: a one-shot pipeline           *)
(*   fetch_data -> clean_data -> analyze_data -> visualize_data            *)
(* sequenced by earth_meteorite_landing_data_handling.                     *)
(*                                                                         *)
(* Text is a sequence of one-character strings, so that parsing a mass or  *)
(* a date is a computation on the characters.  A table cell is an option:  *)
(* NaN (the empty tuple) or Some(v) (a one-element tuple).                 *)
(***************************************************************************)
EXTENDS Integers, Sequences, FiniteSets, TLC

VARIABLES pc, response, raw_data, df, results, charts, files, log, error

vars == <<pc, response, raw_data, df, results, charts, files, log, error>>

(***************************************************************************)
(* Bounds of the model.                                                    *)
(***************************************************************************)
\* Largest number of records in a response body with status 200.
MaxRows == 3
\* Largest number of records in the body of a response with another status.
MaxOtherRows == 1

(***************************************************************************)
(* Cells.                                                                  *)
(***************************************************************************)
NaN == << >>
Some(v) == <<v>>
Val(c) == c[1]

(***************************************************************************)
(* Inputs: the texts that occur as `mass` and `year` in a record, and the  *)
(* names of the records.  A record of position i carries the i-th name     *)
(* (names are unique in the dataset).                                      *)
(***************************************************************************)
Names == <<"Aachen", "Aarhus", "Abee", "Acapulco", "Achiras", "Adhi Kot">>

MassTexts ==
    { <<"a", "b", "c">>,
      <<"1", "0", "0", "0", "0", "0">>,
      <<"2", "0", "0", "0", "0", "0">> }

YearTexts ==
    { <<"b", "a", "d">>,
      <<"1", "9", "9", "0", "-", "0", "1", "-", "0", "1">>,
      <<"1", "9", "9", "1", "-", "0", "6", "-", "1", "5">> }

\* A raw record (a JSON object): `name` always, `mass` and `year` when the
\* option m, y is Some(text).
RawRecord(n, m, y) ==
    [k \in {"name"} \cup (IF m = NaN THEN {} ELSE {"mass"})
                    \cup (IF y = NaN THEN {} ELSE {"year"}) |->
        CASE k = "name" -> n
          [] k = "mass" -> Val(m)
          [] k = "year" -> Val(y)]

OptTexts(S) == {NaN} \cup {Some(s) : s \in S}

\* The record sequence of length n whose i-th record is named Names[i] and
\* has the mass and year options f[i].
Body(n, f) == [i \in 1..n |-> RawRecord(Names[i], f[i][1], f[i][2])]

BodyChoices(n) == [1..n -> OptTexts(MassTexts) \X OptTexts(YearTexts)]

(***************************************************************************)
(* fetch_data.  The outcome of the single requests.get(url) is either a    *)
(* transport failure (connection error, timeout, too many redirects) or a  *)
(* response with a status code and a body; the body either decodes as JSON *)
(* to a value (here: a sequence of records) or does not decode.            *)
(***************************************************************************)
StatusCodes == {200, 300, 404, 500}

NoBody == [json |-> FALSE, value |-> << >>]
JsonBody(v) == [json |-> TRUE, value |-> v]

TransportError == [kind |-> "transport_error", status |-> 0, body |-> NoBody]
Response(s, b) == [kind |-> "response", status |-> s, body |-> b]

\* The largest body the model gives a response of status s.
RowsFor(s) == IF s = 200 THEN MaxRows ELSE MaxOtherRows

\* The result of a call: a returned value, or an exception that left it.
Return(v) == [raised |-> FALSE, exc |-> "", value |-> v]
Raise(e) == [raised |-> TRUE, exc |-> e, value |-> << >>]

\* Response.raise_for_status: HTTPError for a 4xx or 5xx status, nothing else.
raise_for_status(status) == 400 <= status /\ status < 600

\* The try block, lines 22-24.  requests.get raises on a transport failure,
\* raise_for_status on an error status, response.json() on an undecodable body.
fetch_try(o) ==
    IF o.kind = "transport_error" THEN Raise("ConnectionError")
    ELSE IF raise_for_status(o.status) THEN Raise("HTTPError")
    ELSE IF ~o.body.json THEN Raise("JSONDecodeError")
    ELSE Return(o.body.value)

\* Mutant: the except clause names ConnectionError only.
ConnectionErrorOnly == {"ConnectionError"}

\* The classes `except requests.exceptions.RequestException` catches.
\* requests.exceptions.JSONDecodeError derives from RequestException
\* (requests 2.27 and later), as do ConnectionError and HTTPError.
RequestException == {"ConnectionError", "HTTPError", "JSONDecodeError"}

fetch_data(o) ==
    LET r == fetch_try(o)
    IN  IF r.raised /\ r.exc \in RequestException THEN Return(<< >>) ELSE r

(***************************************************************************)
(* clean_data.  A DataFrame is its set of columns and its sequence of      *)
(* rows; a row keeps its index label (the 0-based input position) and one  *)
(* cell per column of interest.                                            *)
(***************************************************************************)
Digits == {"0", "1", "2", "3", "4", "5", "6", "7", "8", "9"}

DigitVal(c) ==
    CASE c = "0" -> 0 [] c = "1" -> 1 [] c = "2" -> 2 [] c = "3" -> 3
      [] c = "4" -> 4 [] c = "5" -> 5 [] c = "6" -> 6 [] c = "7" -> 7
      [] c = "8" -> 8 [] c = "9" -> 9

AllDigits(s) == \A i \in 1..Len(s) : s[i] \in Digits

RECURSIVE Decimal(_)
Decimal(s) ==
    IF s = << >> THEN 0
    ELSE 10 * Decimal(SubSeq(s, 1, Len(s) - 1)) + DigitVal(s[Len(s)])

\* pd.DataFrame(): no columns, no rows.
EmptyDataFrame == [columns |-> {}, rows |-> << >>]

\* pd.DataFrame(data): the columns are the union of the records' keys; a
\* record lacking a key gets NaN in that column.
Cell(rec, k) == IF k \in DOMAIN rec THEN Some(rec[k]) ELSE NaN

DataFrame(data) ==
    [columns |-> UNION {DOMAIN data[i] : i \in 1..Len(data)},
     rows    |-> [i \in 1..Len(data) |->
                    [idx  |-> i - 1,
                     name |-> Cell(data[i], "name"),
                     mass |-> Cell(data[i], "mass"),
                     year |-> Cell(data[i], "year")]]]

\* Mutant: a text that is no number becomes 0 instead of NaN.
to_numeric_zero(c) ==
    IF c = NaN THEN NaN
    ELSE IF Val(c) # << >> /\ AllDigits(Val(c)) THEN Some(Decimal(Val(c)))
    ELSE Some(0)

\* pd.to_numeric(cell, errors='coerce') on the texts of the model: an
\* unsigned decimal literal becomes its value, any other text and a missing
\* cell become NaN.
to_numeric(c) ==
    IF c = NaN THEN NaN
    ELSE IF Val(c) # << >> /\ AllDigits(Val(c)) THEN Some(Decimal(Val(c)))
    ELSE NaN

\* pd.to_datetime(cell, errors='coerce') on the texts of the model: an ISO
\* date YYYY-MM-DD becomes a timestamp, any other text and a missing cell
\* become NaT (the same missing marker, NaN).
to_datetime(c) ==
    IF c = NaN THEN NaN
    ELSE LET s == Val(c)
         IN  IF /\ Len(s) = 10
                /\ s[5] = "-" /\ s[8] = "-"
                /\ AllDigits(SubSeq(s, 1, 4))
                /\ AllDigits(SubSeq(s, 6, 7))
                /\ AllDigits(SubSeq(s, 9, 10))
                /\ Decimal(SubSeq(s, 6, 7)) \in 1..12
                /\ Decimal(SubSeq(s, 9, 10)) \in 1..31
             THEN Some([year  |-> Decimal(SubSeq(s, 1, 4)),
                        month |-> Decimal(SubSeq(s, 6, 7)),
                        day   |-> Decimal(SubSeq(s, 9, 10))])
             ELSE NaN

\* Mutant: the subset names `mass` only.
dropna_mass_only(rows) == SelectSeq(rows, LAMBDA r : r.mass # NaN)

\* df.dropna(subset=['mass', 'year']): the rows with neither cell missing,
\* in order, index labels kept.
dropna(rows) == SelectSeq(rows, LAMBDA r : r.mass # NaN /\ r.year # NaN)

\* df['year'].dt.year
dt_year(c) == IF c = NaN THEN NaN ELSE Some(Val(c).year)

\* Mutant: `and` for `or`, so that one missing column passes.
missing_both(columns) == "mass" \notin columns /\ "year" \notin columns

\* Line 49: a critical column is missing.
missing_critical(columns) == "mass" \notin columns \/ "year" \notin columns

\* Lines 54-63.  df['mass'] and df['year'] raise KeyError on a frame without
\* that column.
clean_columns(frame) ==
    LET coerced == [i \in 1..Len(frame.rows) |->
                      [frame.rows[i] EXCEPT !.mass = to_numeric(@),
                                            !.year = to_datetime(@)]]
        kept    == dropna(coerced)
    IN  IF "mass" \notin frame.columns \/ "year" \notin frame.columns
        THEN Raise("KeyError")
        ELSE Return([columns |-> frame.columns,
                     rows    |-> [i \in 1..Len(kept) |->
                                    [kept[i] EXCEPT !.year = dt_year(@)]]])

clean_data(data) ==
    LET frame == DataFrame(data)
    IN  IF missing_critical(frame.columns)
        THEN Return(EmptyDataFrame)
        ELSE clean_columns(frame)

\* Mutant: the emptiness test never fires.
empty_never(frame) == FALSE

\* DataFrame.empty: some axis has length 0.
empty(frame) == frame.columns = {} \/ frame.rows = << >>

(***************************************************************************)
(* analyze_data.  A Series is a sequence of [label, value] entries.        *)
(***************************************************************************)
Series(frame, col) ==
    [i \in 1..Len(frame.rows) |->
        [label |-> frame.rows[i].idx, value |-> Val(frame.rows[i][col])]]

SeriesMax(s) == CHOOSE v \in {s[i].value : i \in 1..Len(s)} :
                    \A i \in 1..Len(s) : s[i].value <= v

\* Mutant: the label of the last entry holding the maximum.
idxmax_last(s) ==
    LET last == CHOOSE i \in 1..Len(s) :
                    /\ s[i].value = SeriesMax(s)
                    /\ \A j \in (i + 1)..Len(s) : s[j].value # SeriesMax(s)
    IN  s[last].label

\* Series.idxmax(): the label of the first entry holding the maximum.
idxmax(s) ==
    LET first == CHOOSE i \in 1..Len(s) :
                    /\ s[i].value = SeriesMax(s)
                    /\ \A j \in 1..(i - 1) : s[j].value # SeriesMax(s)
    IN  s[first].label

\* df.loc[label]: the row carrying the index label.
loc(frame, label) ==
    frame.rows[CHOOSE i \in 1..Len(frame.rows) : frame.rows[i].idx = label]

\* Series.value_counts(): one entry per distinct value, labelled by the
\* value and holding its number of occurrences, sorted by descending count.
\* The sort is sort_values' default (kind='quicksort'), which is not stable:
\* the order among equal counts is whatever the build's sort produces, so
\* every ordering with non-increasing counts is a possible result.
Occurrences(s, v) == Cardinality({i \in 1..Len(s) : s[i].value = v})

value_counts(s) ==
    LET vals == {s[i].value : i \in 1..Len(s)}
        n    == Cardinality(vals)
    IN  { [i \in 1..n |-> [label |-> f[i], value |-> Occurrences(s, f[i])]] :
            f \in { g \in [1..n -> vals] :
                      /\ \A i, j \in 1..n : i # j => g[i] # g[j]
                      /\ \A i \in 1..(n - 1) :
                            Occurrences(s, g[i]) >= Occurrences(s, g[i + 1]) } }

NameText(c) == IF c = NaN THEN "nan" ELSE Val(c)

\* analyze_data with vc the result of df['year'].value_counts().  On a
\* table without rows idxmax raises ValueError.
analyze_data(frame, vc) ==
    IF frame.rows = << >> THEN Raise("ValueError")
    ELSE LET most_massive == loc(frame, idxmax(Series(frame, "mass")))
         IN  Return([total_entries       |-> Len(frame.rows),
                     most_massive_name   |-> NameText(most_massive.name),
                     most_massive_mass   |-> Val(most_massive.mass),
                     most_frequent_year  |-> idxmax(vc),
                     most_frequent_count |-> SeriesMax(vc)])

(***************************************************************************)
(* visualize_data: the data each chart is drawn from, and the file each    *)
(* plt.savefig writes.                                                     *)
(***************************************************************************)
HistMassLimit == 100000
TickStep == 5

Column(frame, col) == [i \in 1..Len(frame.rows) |-> Val(frame.rows[i][col])]

SeqSum(s) == LET RECURSIVE Sum(_)
                 Sum(k) == IF k = 0 THEN 0 ELSE Sum(k - 1) + s[k]
             IN  Sum(Len(s))

\* sorted(df['year'].unique())
sorted_unique(s) ==
    LET vals == {s[i] : i \in 1..Len(s)}
    IN  CHOOSE q \in [1..Cardinality(vals) -> vals] :
            \A i, j \in 1..Cardinality(vals) : i < j => q[i] < q[j]

\* Lines 121-139: one bar per distinct year in ascending order, a tick label
\* at every TickStep-th bar (positions are 0-based).
bar_chart(frame) ==
    LET years == sorted_unique(Column(frame, "year"))
    IN  [bars  |-> [i \in 1..Len(years) |->
                      [year  |-> years[i],
                       count |-> Cardinality({k \in 1..Len(frame.rows) :
                                     Val(frame.rows[k].year) = years[i]})]],
         ticks |-> {[position |-> i - 1, text |-> years[i]] :
                      i \in {k \in 1..Len(years) : (k - 1) % TickStep = 0}}]

\* Mutant: a strict comparison.
filtered_df_strict(frame) ==
    [frame EXCEPT !.rows = SelectSeq(@, LAMBDA r : Val(r.mass) < HistMassLimit)]

\* df[df['mass'] <= 100000]
filtered_df(frame) ==
    [frame EXCEPT !.rows = SelectSeq(@, LAMBDA r : Val(r.mass) <= HistMassLimit)]

\* Lines 143-155: the histogram of the filtered masses, with the mean (kept
\* as sum and count) and the median (kept as the two middle values of the
\* sorted masses, equal when their number is odd); both NaN without rows.
histogram(frame) ==
    LET masses == Column(filtered_df(frame), "mass")
        asc    == SortSeq(masses, LAMBDA a, b : a < b)
        n      == Len(masses)
    IN  [masses |-> masses,
         mean   |-> IF n = 0 THEN NaN
                    ELSE Some([sum |-> SeqSum(masses), count |-> n]),
         median |-> IF n = 0 THEN NaN
                    ELSE Some([lo |-> asc[(n + 1) \div 2],
                               hi |-> asc[(n \div 2) + 1]])]

\* Line 160: one point per row of df.
scatter(frame) ==
    [i \in 1..Len(frame.rows) |->
        [x |-> Val(frame.rows[i].year), y |-> Val(frame.rows[i].mass)]]

BarFile == "meteorite_counts_per_year.png"
HistFile == "meteorite_mass_distribution.png"
ScatterFile == "meteorite_scatter_mass_vs_year.png"

\* The names the docstring of visualize_data documents (lines 115-118).
DocumentedFiles ==
    <<"meteorite_counts_per_year.png",
      "meteorite_mass_distribution.png",
      "scatter_mass_vs_year.png">>

(***************************************************************************)
(* earth_meteorite_landing_data_handling: the orchestrator.                *)
(***************************************************************************)
NoResponse == [kind |-> "none", status |-> 0, body |-> NoBody]
NoCharts == [bar |-> NaN, hist |-> NaN, scatter |-> NaN]

Init ==
    /\ pc = "start"
    /\ response = NoResponse
    /\ raw_data = << >>
    /\ df = EmptyDataFrame
    /\ results = NaN
    /\ charts = NoCharts
    /\ files = << >>
    /\ log = << >>
    /\ error = ""

\* Lines 174-175, for the outcome o of the GET.
FetchOutcome(o) ==
    LET r == fetch_data(o)
    IN  /\ response' = o
        /\ raw_data' = r.value
        /\ error' = r.exc
        /\ pc' = IF r.raised THEN "crashed" ELSE "fetched"
        /\ log' = Append(log, "fetch_data")
        /\ UNCHANGED <<df, results, charts, files>>

Fetch ==
    /\ pc = "start"
    /\ \/ FetchOutcome(TransportError)
       \/ \E s \in StatusCodes : FetchOutcome(Response(s, NoBody))
       \/ \E s \in StatusCodes : \E n \in 0..RowsFor(s) :
             \E f \in BodyChoices(n) :
                FetchOutcome(Response(s, JsonBody(Body(n, f))))

\* Lines 176-178: `if not raw_data`.
ExitNoData ==
    /\ pc = "fetched"
    /\ raw_data = << >>
    /\ pc' = "exit_no_data"
    /\ UNCHANGED <<response, raw_data, df, results, charts, files, log, error>>

\* Lines 180-181.
Clean ==
    /\ pc = "fetched"
    /\ raw_data # << >>
    /\ LET r == clean_data(raw_data)
       IN  /\ df' = IF r.raised THEN df ELSE r.value
           /\ error' = r.exc
           /\ pc' = IF r.raised THEN "crashed" ELSE "cleaned"
    /\ log' = Append(log, "clean_data")
    /\ UNCHANGED <<response, raw_data, results, charts, files>>

\* Lines 182-184: `if df.empty`.
ExitEmpty ==
    /\ pc = "cleaned"
    /\ empty(df)
    /\ pc' = "exit_empty"
    /\ UNCHANGED <<response, raw_data, df, results, charts, files, log, error>>

\* Lines 186-187.
Analyze ==
    /\ pc = "cleaned"
    /\ ~empty(df)
    /\ \E vc \in value_counts(Series(df, "year")) :
          LET r == analyze_data(df, vc)
          IN  /\ results' = IF r.raised THEN NaN ELSE Some(r.value)
              /\ error' = r.exc
              /\ pc' = IF r.raised THEN "crashed" ELSE "analyzed"
    /\ log' = Append(log, "analyze_data")
    /\ UNCHANGED <<response, raw_data, df, charts, files>>

\* Mutant: the summary is not printed before the charts are made.
SummaryNotPrinted ==
    /\ pc = "analyzed"
    /\ pc' = "summarised"
    /\ UNCHANGED <<response, raw_data, df, results, charts, files, log, error>>

\* Lines 189-193: the summary is printed from results.
PrintSummary ==
    /\ pc = "analyzed"
    /\ log' = Append(log, "summary")
    /\ pc' = "summarised"
    /\ UNCHANGED <<response, raw_data, df, results, charts, files, error>>

\* Line 194 and lines 120-140: visualize_data is entered, the bar chart saved.
SaveBar ==
    /\ pc = "summarised"
    /\ log' = Append(log, "visualize_data")
    /\ charts' = [charts EXCEPT !.bar = Some(bar_chart(df))]
    /\ files' = Append(files, BarFile)
    /\ pc' = "bar_saved"
    /\ UNCHANGED <<response, raw_data, df, results, error>>

\* Lines 142-156.
SaveHist ==
    /\ pc = "bar_saved"
    /\ charts' = [charts EXCEPT !.hist = Some(histogram(df))]
    /\ files' = Append(files, HistFile)
    /\ pc' = "hist_saved"
    /\ UNCHANGED <<response, raw_data, df, results, log, error>>

\* Lines 158-166.
SaveScatter ==
    /\ pc = "hist_saved"
    /\ charts' = [charts EXCEPT !.scatter = Some(scatter(df))]
    /\ files' = Append(files, ScatterFile)
    /\ pc' = "done"
    /\ UNCHANGED <<response, raw_data, df, results, log, error>>

Next ==
    \/ Fetch
    \/ ExitNoData
    \/ Clean
    \/ ExitEmpty
    \/ Analyze
    \/ PrintSummary
    \/ SaveBar
    \/ SaveHist
    \/ SaveScatter

Spec == Init /\ [][Next]_vars

(***************************************************************************)
(* Properties of clean_data, read in the state the call returns to.        *)
(***************************************************************************)
Keys(data) == UNION {DOMAIN data[i] : i \in 1..Len(data)}

\* The record's mass parses as a number and its year parses as a date.
ParsesMass(rec) == "mass" \in DOMAIN rec /\ to_numeric(Some(rec.mass)) # NaN
ParsesYear(rec) == "year" \in DOMAIN rec /\ to_datetime(Some(rec.year)) # NaN
ValidRecord(rec) == ParsesMass(rec) /\ ParsesYear(rec)

\* The record's mass is a text that is not a number: among the texts of the
\* model, one that is not a non-empty run of digits.
NonNumericMass(rec) ==
    "mass" \in DOMAIN rec /\ (rec.mass = << >> \/ ~AllDigits(rec.mass))

\* The input position (1-based) an output row comes from.
Origin(row) == row.idx + 1

\* C1: when the input has a mass and a year column, the rows clean_data
\* returns are exactly the input records whose mass parses as a number and
\* whose year parses as a date, each once, in input order: every output row
\* has a mass and a year, comes from a valid record and carries its name, no
\* valid record is missing, and the origins increase along the output.
C1_CleanKeepsValidRowsInOrder ==
    (pc = "cleaned" /\ {"mass", "year"} \subseteq Keys(raw_data)) =>
        /\ \A k \in 1..Len(df.rows) :
              /\ df.rows[k].mass # NaN
              /\ df.rows[k].year # NaN
              /\ Origin(df.rows[k]) \in 1..Len(raw_data)
              /\ ValidRecord(raw_data[Origin(df.rows[k])])
              /\ df.rows[k].name = Some(raw_data[Origin(df.rows[k])].name)
        /\ \A i \in 1..Len(raw_data) :
              ValidRecord(raw_data[i]) =>
                 \E k \in 1..Len(df.rows) : Origin(df.rows[k]) = i
        /\ \A k, l \in 1..Len(df.rows) :
              k < l => Origin(df.rows[k]) < Origin(df.rows[l])

\* Witness of C1: a record was dropped from between two records kept.
C1_Witness ==
    /\ pc = "cleaned"
    /\ {"mass", "year"} \subseteq Keys(raw_data)
    /\ \E k \in 1..(Len(df.rows) - 1) :
          Origin(df.rows[k + 1]) > Origin(df.rows[k]) + 1

\* C2: when no record has a mass, or no record has a year, clean_data
\* returns a table without rows, whatever the number of records, and returns
\* it: no exception leaves the call.
C2_MissingColumnGivesEmptyTable ==
    (/\ "clean_data" \in {log[i] : i \in 1..Len(log)}
     /\ ("mass" \notin Keys(raw_data) \/ "year" \notin Keys(raw_data))) =>
        /\ pc # "crashed"
        /\ error = ""
        /\ df.rows = << >>

\* Witness of C2: several records, all with a mass, none with a year.
C2_Witness ==
    /\ pc = "cleaned"
    /\ Len(raw_data) >= 2
    /\ "mass" \in Keys(raw_data)
    /\ "year" \notin Keys(raw_data)
    /\ df.rows = << >>

\* The fields of a row, without its index label.
Fields(rows) ==
    [k \in 1..Len(rows) |->
        [name |-> rows[k].name, mass |-> rows[k].mass, year |-> rows[k].year]]

WithoutNonNumericMass(data) == SelectSeq(data, LAMBDA rec : ~NonNumericMass(rec))

FetchReturned == log = <<"fetch_data">>

\* The GET ended in a transport error or in a response whose status is not
\* a success status (2xx).
TransportOrNonSuccess ==
    \/ response.kind = "transport_error"
    \/ response.kind = "response" /\ response.status \notin 200..299

\* The GET ended in a transport error or in a response with an error status
\* (4xx, 5xx).
TransportOrErrorStatus ==
    \/ response.kind = "transport_error"
    \/ response.kind = "response" /\ response.status \in 400..599

\* C3 as stated: fetch_data returns a value for every outcome of the GET, and
\* the empty sequence on a transport error and on every non-success status.
C3_FetchEmptyOnAnyNonSuccess ==
    FetchReturned =>
        /\ pc # "crashed"
        /\ error = ""
        /\ TransportOrNonSuccess => raw_data = << >>

\* C3 amended: fetch_data returns a value for every outcome of the GET; the
\* value is the empty sequence on a transport error, on a 4xx or 5xx status
\* and on a body that does not decode as JSON, and the decoded body
\* otherwise (also under a status such as 300, which is not a success status
\* and for which raise_for_status raises nothing).
C3_FetchEmptyOnErrorStatus ==
    FetchReturned =>
        /\ pc # "crashed"
        /\ error = ""
        /\ raw_data = IF TransportOrErrorStatus \/ ~response.body.json
                      THEN << >>
                      ELSE response.body.value

\* Witness of C3: a 500 response whose body is a JSON array with a record,
\* answered by the empty sequence.
C3_Witness ==
    /\ FetchReturned
    /\ response.kind = "response"
    /\ response.status = 500
    /\ response.body.json
    /\ response.body.value # << >>
    /\ raw_data = << >>
    /\ pc = "fetched"

(***************************************************************************)
(* Properties of analyze_data, read in the state the call returns to.      *)
(***************************************************************************)
Rows == 1..Len(df.rows)
MassAt(i) == Val(df.rows[i].mass)
YearAt(i) == Val(df.rows[i].year)
RowsOfYear(y) == Cardinality({i \in Rows : YearAt(i) = y})
LargestYearCount == CHOOSE c \in {RowsOfYear(YearAt(i)) : i \in Rows} :
                        \A i \in Rows : RowsOfYear(YearAt(i)) <= c
\* The first row, in table order, whose year has the largest number of rows.
FirstMostFrequentRow ==
    CHOOSE i \in Rows :
        /\ RowsOfYear(YearAt(i)) = LargestYearCount
        /\ \A j \in 1..(i - 1) : RowsOfYear(YearAt(j)) # LargestYearCount

\* C4 as stated: most_frequent_count is the largest number of rows of a
\* year, most_frequent_year is a year with that many rows, and among several
\* such years it is the one occurring first in table order.
C4_MostFrequentYearFirstOnTie ==
    pc = "analyzed" =>
        /\ Val(results).most_frequent_count = LargestYearCount
        /\ RowsOfYear(Val(results).most_frequent_year)
              = Val(results).most_frequent_count
        /\ Val(results).most_frequent_year = YearAt(FirstMostFrequentRow)

\* C5: total_entries is the number of rows, most_massive_mass is the largest
\* mass of the table, and most_massive_name is the name of the first row, in
\* table order, that has this mass.
C5_MostMassiveIsFirstMaximum ==
    pc = "analyzed" =>
        /\ Val(results).total_entries = Len(df.rows)
        /\ \A i \in Rows : MassAt(i) <= Val(results).most_massive_mass
        /\ \E i \in Rows :
              /\ MassAt(i) = Val(results).most_massive_mass
              /\ \A j \in 1..(i - 1) : MassAt(j) < MassAt(i)
              /\ Some(Val(results).most_massive_name) = df.rows[i].name

\* Witness of C5: the largest mass occurs in two rows, after a smaller one.
C5_Witness ==
    /\ pc = "analyzed"
    /\ Len(df.rows) = 3
    /\ MassAt(1) < MassAt(2)
    /\ MassAt(2) = MassAt(3)
    /\ Val(results).most_massive_name = NameText(df.rows[2].name)

(***************************************************************************)
(* Properties of the orchestrator.                                         *)
(***************************************************************************)
Logged(e) == \E i \in 1..Len(log) : log[i] = e

Stages == <<"fetch_data", "clean_data", "analyze_data", "summary", "visualize_data">>

\* C6: analyze_data and visualize_data run, and chart files are written,
\* only after a non-empty fetch result and a non-empty cleaned table; after
\* an empty fetch result the run has stopped with only fetch_data invoked,
\* after an empty cleaned table with only fetch_data and clean_data
\* invoked; in both cases no error is raised and no file is written.
C6_NoAnalysisWithoutData ==
    /\ (Logged("analyze_data") \/ Logged("visualize_data") \/ files # << >>) =>
          (raw_data # << >> /\ ~empty(df))
    /\ Logged("clean_data") => raw_data # << >>
    /\ (FetchReturned /\ raw_data = << >>) => ~ENABLED Clean
    /\ pc = "exit_no_data" =>
          (/\ raw_data = << >> /\ log = <<"fetch_data">>
           /\ files = << >> /\ charts = NoCharts /\ error = "")
    /\ pc = "exit_empty" =>
          (/\ empty(df) /\ log = <<"fetch_data", "clean_data">>
           /\ files = << >> /\ charts = NoCharts /\ error = "")
    /\ pc # "crashed"

\* Witness of C6: the run stopped on a cleaned table that has the columns
\* and no rows.
C6_Witness ==
    /\ pc = "exit_empty"
    /\ Len(raw_data) >= 2
    /\ {"mass", "year"} \subseteq df.columns
    /\ df.rows = << >>

\* C7: the stages run in the order fetch_data, clean_data, analyze_data,
\* summary, visualize_data, each at most once (the log is a prefix of that
\* sequence); a run that reaches the end has run them all; a chart file
\* exists only once the summary is printed.
C7_StagesInOrder ==
    /\ Len(log) <= Len(Stages)
    /\ log = SubSeq(Stages, 1, Len(log))
    /\ pc = "done" => log = Stages
    /\ files # << >> => Logged("summary")
    /\ Logged("summary") => results # NaN

\* Witness of C7: a run that reached the end.
C7_Witness == pc = "done" /\ Len(files) = 3 /\ log = Stages

(***************************************************************************)
(* Properties of visualize_data.                                           *)
(***************************************************************************)
\* C9 as stated: visualize_data writes exactly the three files its docstring
\* documents, in that order.
C9_WritesDocumentedFiles == pc = "done" => files = DocumentedFiles

\* The rows the histogram is about: those of mass <= 100000.
HistRows == {i \in Rows : MassAt(i) <= 100000}
CountIn(s, v) == Cardinality({k \in 1..Len(s) : s[k] = v})

\* C10: the histogram holds the masses of exactly the rows of mass <= 100000
\* (a row of mass 100000 included, a row of mass 200000 not), its mean and
\* median are those of these masses, and the scatter plot has one point per
\* row of the table, the rows of larger mass included; the table itself
\* keeps its rows.
C10_HistogramFilteredScatterNot ==
    /\ charts.hist # NaN =>
          LET h == Val(charts.hist)
          IN  /\ Len(h.masses) = Cardinality(HistRows)
              /\ \A i \in Rows :
                    CountIn(h.masses, MassAt(i)) =
                       IF MassAt(i) <= 100000
                       THEN Cardinality({j \in Rows : MassAt(j) = MassAt(i)})
                       ELSE 0
              /\ HistRows # {} =>
                    /\ h.mean # NaN /\ h.median # NaN
                    /\ Val(h.mean).count = Cardinality(HistRows)
                    /\ Val(h.mean).sum = SeqSum(h.masses)
                    /\ \E i, j \in HistRows :
                          /\ Val(h.median).lo = MassAt(i)
                          /\ Val(h.median).hi = MassAt(j)
                    /\ Val(h.median).lo <= Val(h.median).hi
                    /\ 2 * Cardinality({i \in HistRows : MassAt(i) <= Val(h.median).lo})
                          >= Cardinality(HistRows)
                    /\ 2 * Cardinality({i \in HistRows : MassAt(i) >= Val(h.median).hi})
                          >= Cardinality(HistRows)
              /\ HistRows = {} => (h.mean = NaN /\ h.median = NaN)
    /\ charts.scatter # NaN =>
          /\ Len(Val(charts.scatter)) = Len(df.rows)
          /\ \A i \in Rows :
                Val(charts.scatter)[i] = [x |-> YearAt(i), y |-> MassAt(i)]
          /\ df = clean_data(raw_data).value

\* Witness of C10: all charts drawn from a table with a row of mass 100000
\* and a row of mass 200000.
C10_Witness ==
    /\ pc = "done"
    /\ \E i, j \in Rows : MassAt(i) = 100000 /\ MassAt(j) = 200000
    /\ Len(Val(charts.hist).masses) < Len(Val(charts.scatter))

====
